---- MODULE Spec2Model ----
(***************************************************************************)
(* A model of the Go package github.com/skillian/errors: the Error type    *)
(* (Err, Cause, Context, captured program counters), its rendering and     *)
(* matching, WrapDeferred, the Errors aggregate and the ConcurrentErrors   *)
(* collector.                                                              *)
(*                                                                         *)
(* Error values are records tagged by "kind".  Text is a sequence of       *)
(* tokens (strings); the newline is always the token "\n" on its own.      *)
(***************************************************************************)
EXTENDS Integers, Sequences, FiniteSets, TLC

VARIABLES
    \* ---- ConcurrentErrors (src/concurrent.go) ----
    mutex,      \* holder of ConcurrentErrors.mutex, or "none"
    arrays,     \* the heap of backing arrays of []error slices: id -> cells
    cerrors,    \* ConcurrentErrors.errors: slice header [arr, len, cap]
    tpc,        \* position of each adding task inside Add
    tloc,       \* each adding task's copy of the slice header read in append
    mpc,        \* position of the querying caller inside Err
    mres,       \* the value returned by the caller's latest Err call
    mcalls,     \* number of Err calls the caller has completed
    mprev,      \* the value returned by the caller's Err call before the latest
    mrendered,  \* the text of mres.Error(), once the caller has rendered it
    tprog,      \* the Add calls each task has still to make: argument lists
    lockOrder,  \* history: the argument lists of the Add calls, in the order
                \* in which they acquired the mutex
    msnap,      \* history: the errors added by the Add calls that had
                \* returned when the latest Err call ran
    \* ---- Aggregate / Errors (src/unnamed/part_003) ----
    aggIn,      \* the argument sequence of Aggregate
    aggOut,     \* the value returned by Aggregate, then by each Unwrap
    aggPc,      \* "start", "built" once Aggregate returned
    aggK,       \* number of Unwrap calls applied to the returned aggregate
    \* ---- WrapDeferred (src/errors.go, src/wrap.go, src/unnamed/part_001) ----
    wPe,        \* the slot pointer argument: "nilptr" or "slot"
    wSlot,      \* the value held by the slot
    wPrev,      \* the value the slot held when the latest call started
    wCb,        \* the value the deferred callback of the latest call returned
    wOut,       \* outcome of the latest call: "none", "returned", "panicked"
    wVariant,   \* which revision's function the latest call ran
    wCalls,     \* number of calls made so far
    \* ---- Error.Error / Error.Is (src/errors.go) ----
    eVal,       \* the Error value under examination
    eHow,       \* how eVal was built: "literal" or the constructor's name
    eText,      \* the text returned by eVal.Error(), once rendered
    eOther,     \* the target e2 of the call eVal.Is(e2)
    eIs,        \* the value returned by eVal.Is(eOther), once called
    ePc,        \* "start", "rendered", "matched"
    \* ---- Cause (src/errors.go) ----
    cIn,        \* the argument of Cause
    cErr,       \* the loop variable err of Cause
    cPc,        \* "loop" or "done"
    cRet,       \* the value returned by Cause
    cIters,     \* number of loop iterations started
    \* ---- Errors.Is (src/unnamed/part_003) ----
    isEs,       \* the receiver es of the call es.Is(target)
    isT,        \* the target
    isRes,      \* the value the call returned
    isPc,       \* "start" or "called"
    \* ---- setErrorPCs (src/errors.go) ----
    sHow,       \* the constructor called
    sSkipArg,   \* the skip argument given to the constructor
    sStack,     \* the stack of the constructor's caller, the caller first
    sGot,       \* the frames stored so far in pcs[:count]
    sLen,       \* len(pcs)
    sPc,        \* "loop" or "done"
    sIters      \* number of loop iterations run

concVars ==
    <<mutex, arrays, cerrors, tpc, tloc, mpc, mres, mcalls,
      mprev, mrendered, tprog, lockOrder, msnap>>
aggVars  == <<aggIn, aggOut, aggPc, aggK>>
wrapVars == <<wPe, wSlot, wPrev, wCb, wOut, wVariant, wCalls>>
errVars  == <<eVal, eHow, eOther, eText, eIs, ePc>>
causeVars == <<cIn, cErr, cPc, cRet, cIters>>
isVars == <<isEs, isT, isRes, isPc>>
stackVars == <<sHow, sSkipArg, sStack, sGot, sLen, sPc, sIters>>
vars == <<concVars, aggVars, wrapVars, errVars, causeVars, isVars, stackVars>>

(***************************************************************************)
(* Error values                                                            *)
(***************************************************************************)

\* the nil error interface value
Nil == [kind |-> "nil"]

\* an opaque error made by errors.New(text): a pointer, so its identity is
\* the allocation; its text is the one token id
Leaf(id) == [kind |-> "leaf", id |-> id]

\* the names of the leaf errors the model draws from
LeafIds == {"A", "B"}

Leaves == {Leaf(i) : i \in LeafIds}

\* Error.pcs of a struct literal: the nil slice
NilPcs == [isnil |-> TRUE, pc |-> <<>>]

\* an Error struct value
MkError(err, cause, context, pcs) ==
    [kind |-> "Error", Err |-> err, Cause |-> cause, Context |-> context,
     pcs |-> pcs]

\* a non-nil *Error pointing at the given Error struct
PtrTo(e) == [e EXCEPT !.kind = "PtrError"]

\* a Message value: format string and arguments
Message(fmt, args) == [kind |-> "Message", Fmt |-> fmt, Args |-> args]

\* an Errors aggregate value and a non-nil *Errors
MkErrors(members) == [kind |-> "Errors", errors |-> members]
PtrErrors(members) == [kind |-> "PtrErrors", errors |-> members]

IsErrorKind(x) == x.kind \in {"Error", "PtrError"}
IsErrorsKind(x) == x.kind \in {"Errors", "PtrErrors"}

(***************************************************************************)
(* Stack capture                                                           *)
(***************************************************************************)

\* length of the array "cache" setErrorPCs starts with
cacheLen == 32

Min(a, b) == IF a < b THEN a ELSE b

\* runtime.Callers(skip, buf) with len(buf) = n, called by setErrorPCs: the
\* frames of the calling goroutine's stack, newest first, from frame `skip`
\* on (frame 0 is runtime.Callers itself), at most n of them.  `stk` is the
\* stack of the caller of setErrorPCs, newest first.
Callers(skip, n, stk) ==
    LET full == <<"runtime.Callers", "setErrorPCs">> \o stk
    IN  IF skip >= Len(full) \/ n = 0 THEN <<>>
        ELSE SubSeq(full, skip + 1, Min(skip + n, Len(full)))

\* cap(pcs) after append(pcs, 0) on a full []uintptr: the runtime doubles a
\* small slice
growslice(cap) == 2 * cap

\* setErrorPCs of the revision that calls runtime.Callers once, into the 32
\* cells, and stops
setErrorPCsIterOnce(skip, stk, got, len) ==
    [got |-> Callers(skip + 2, len, stk), len |-> len, done |-> TRUE]

\* one iteration of the loop of setErrorPCs: `got` are the frames stored in
\* pcs[:count] and len is len(pcs) = cap(pcs); the iteration either breaks
\* with pcs[:count], or appends, extends pcs to its capacity and goes on
setErrorPCsIter(skip, stk, got, len) ==
    LET count == Len(got)
        more  == Callers(skip + 2 + count, len - count, stk)
        count2 == count + Len(more)
    IN  IF count2 < len
        THEN [got |-> got \o more, len |-> count2, done |-> TRUE]
        ELSE [got |-> got \o more, len |-> growslice(len), done |-> FALSE]

\* the loop of setErrorPCs, from the state (got, len) to its break
RECURSIVE setErrorPCsLoop(_, _, _, _)
setErrorPCsLoop(skip, stk, got, len) ==
    LET it == setErrorPCsIter(skip, stk, got, len)
    IN  IF it.done THEN it.got
        ELSE setErrorPCsLoop(skip, stk, it.got, it.len)

\* setErrorPCs(skip, &e): the value stored in e.pcs
setErrorPCs(skip, stk) ==
    [isnil |-> FALSE, pc |-> setErrorPCsLoop(skip, stk, <<>>, cacheLen)]

\* CreateError handing its own skip to setErrorPCs unchanged
pcsSkipUnchanged(skip) == skip

\* the skip CreateError(…, skip) hands to setErrorPCs
pcsSkip(skip) == skip + 1

\* CreateError(err, cause, context, skip), called with the stack `callers`
\* (the caller of CreateError first)
CreateError(err, cause, context, skip, callers) ==
    MkError(err, cause, context,
            setErrorPCs(pcsSkip(skip), <<"CreateError">> \o callers))

Errorf(fmt, args, callers) ==
    CreateError(Message(fmt, args), Nil, Nil, 1, <<"Errorf">> \o callers)

ErrorfWithCause(cause, fmt, args, callers) ==
    CreateError(Message(fmt, args), cause, Nil, 1,
                <<"ErrorfWithCause">> \o callers)

ErrorfWithContext(context, fmt, args, callers) ==
    CreateError(Message(fmt, args), Nil, context, 1,
                <<"ErrorfWithContext">> \o callers)

ErrorfWithCauseAndContext(cause, context, fmt, args, callers) ==
    CreateError(Message(fmt, args), cause, context, 1,
                <<"ErrorfWithCauseAndContext">> \o callers)

(***************************************************************************)
(* Text                                                                    *)
(***************************************************************************)

NL == "\n"

Digits == <<"0", "1", "2", "3", "4", "5", "6", "7", "8", "9">>

\* the decimal digits of n >= 0, as %d and strconv.Itoa print them
RECURSIVE Itoa(_)
Itoa(n) ==
    IF n < 10 THEN <<Digits[n + 1]>>
    ELSE Itoa(n \div 10) \o <<Digits[(n % 10) + 1]>>

\* strings.Join(elems, sep)
RECURSIVE Join(_, _)
Join(elems, sep) ==
    IF elems = <<>> THEN <<>>
    ELSE IF Len(elems) = 1 THEN elems[1]
    ELSE elems[1] \o sep \o Join(Tail(elems), sep)

\* one frame as formatStackTrace prints it: "%v\n\t%v:%d" of the frame's
\* function, file and line
FrameText(f) == <<f, NL, "\t", f \o ".go", ":", "1">>

\* the elements read through the collector's current header instead of u
SliceElemsLive(u) ==
    IF cerrors.len = 0 THEN <<>> ELSE SubSeq(arrays[cerrors.arr], 1, cerrors.len)

\* the elements of the slice with header u, read from its backing array
SliceElems(u) ==
    IF u.len = 0 THEN <<>> ELSE SubSeq(arrays[u.arr], 1, u.len)

IsVerb(tok) == tok \in {"%d", "%v"}

RECURSIVE ErrText(_)
RECURSIVE FormatArg(_)
RECURSIVE Sprintf(_, _)
RECURSIVE TextsOf(_)

\* the Error() texts of a sequence of errors
TextsOf(es) ==
    IF es = <<>> THEN <<>> ELSE <<ErrText(Head(es))>> \o TextsOf(Tail(es))

\* unjoined.String()
unjoinedString(u) == Join(TextsOf(SliceElems(u)), <<NL, "    ">>)

\* formatStackTrace(e)
formatStackTrace(e) ==
    IF e.pcs.isnil THEN <<>>
    ELSE IF e.pcs.pc = <<>> THEN <<"", NL, "\t", "", ":", "0">>
    ELSE Join([i \in 1..Len(e.pcs.pc) |-> FrameText(e.pcs.pc[i])], <<NL>>)

\* Error.Error()
ErrorError(e) ==
    LET ca == IF e.Cause # Nil THEN <<"Cause:  ">> \o FormatArg(e.Cause)
              ELSE <<>>
        co == IF e.Context # Nil THEN <<"Context:  ">> \o FormatArg(e.Context)
              ELSE <<>>
        stackTrace == formatStackTrace(e)
    IN  Join(<<ErrText(e.Err), stackTrace, ca, co>>, <<NL>>)

\* Errors.Error()
ErrorsError(es) ==
    Itoa(Len(es.errors)) \o <<" errors: ">> \o Join(TextsOf(es.errors), <<", ">>)

\* one operand as the verbs %v and %d print it
FormatArg(a) ==
    CASE a.kind = "int" -> Itoa(a.n)
      [] a.kind = "unjoined" -> unjoinedString(a)
      [] a.kind = "nil" -> <<"<nil>">>
      [] OTHER -> ErrText(a)

\* fmt.Sprintf(fmt, args...), the format given as its pieces
Sprintf(fmt, args) ==
    IF fmt = <<>> THEN <<>>
    ELSE IF IsVerb(Head(fmt))
         THEN IF args = <<>>
              THEN <<"%!v(MISSING)">> \o Sprintf(Tail(fmt), args)
              ELSE FormatArg(Head(args)) \o Sprintf(Tail(fmt), Tail(args))
         ELSE <<Head(fmt)>> \o Sprintf(Tail(fmt), args)

\* Message.Error()
MessageError(m) == Sprintf(m.Fmt, m.Args)

\* x.Error() for any non-nil error x
ErrText(x) ==
    CASE x.kind = "leaf" -> <<x.id>>
      [] x.kind = "Message" -> MessageError(x)
      [] x.kind \in {"Error", "PtrError"} -> ErrorError(x)
      [] x.kind \in {"Errors", "PtrErrors"} -> ErrorsError(x)

(***************************************************************************)
(* ConcurrentErrors                                                        *)
(***************************************************************************)

\* number of concurrent tasks, each calling Add once
NTasks == 3

\* number of Err calls the querying caller makes
MaxErrCalls == 2

Tasks == 1..NTasks

\* the one distinct error task t passes to Add
TaskErr(t) == Leaf("E" \o ToString(t))

\* the argument list of task t's Add call
TaskArgs(t) == <<TaskErr(t)>>

\* the nil slice
NilSlice == [arr |-> 0, len |-> 0, cap |-> 0]

\* capacity the runtime gives append's result when cap is exceeded
growCap(cap, need) == IF need > 2 * cap THEN need ELSE 2 * cap

\* append(s, xs...) on the heap h: the resulting slice header and heap
append(h, s, xs) ==
    LET need == s.len + Len(xs)
    IN  IF xs = <<>> THEN [hdr |-> s, heap |-> h]
        ELSE IF need <= s.cap
        THEN [hdr  |-> [s EXCEPT !.len = need],
              heap |-> [h EXCEPT ![s.arr] =
                          [i \in 1..s.cap |->
                             IF i > s.len /\ i <= need THEN xs[i - s.len]
                             ELSE h[s.arr][i]]]]
        ELSE LET ncap == growCap(s.cap, need)
                 old  == IF s.len = 0 THEN <<>> ELSE SubSeq(h[s.arr], 1, s.len)
                 cells == [i \in 1..ncap |->
                             IF i <= s.len THEN old[i]
                             ELSE IF i <= need THEN xs[i - s.len]
                             ELSE Nil]
             IN  [hdr  |-> [arr |-> Len(h) + 1, len |-> need, cap |-> ncap],
                  heap |-> Append(h, cells)]

\* unjoined(e.errors): the same slice header under another type
unjoined(s) == [kind |-> "unjoined", arr |-> s.arr, len |-> s.len, cap |-> s.cap]

\* the format string of Err, in pieces
ErrFmt == <<"%d", " errors:", NL, "    ", "%v">>

\* the state of a component that a specification leaves unused
AggIdle == aggIn = <<>> /\ aggOut = Nil /\ aggPc = "off" /\ aggK = 0

WrapIdle ==
    /\ wPe = "slot" /\ wSlot = Nil /\ wPrev = Nil /\ wCb = Nil
    /\ wOut = "off" /\ wVariant = "none" /\ wCalls = 0

ErrIdle ==
    eVal = Nil /\ eHow = "none" /\ eOther = Nil /\ eText = <<>> /\ eIs = FALSE /\ ePc = "off"

CauseIdle ==
    cIn = Nil /\ cErr = Nil /\ cPc = "off" /\ cRet = Nil /\ cIters = 0

IsIdle == isEs = Nil /\ isT = Nil /\ isRes = FALSE /\ isPc = "off"

StackIdle ==
    /\ sHow = "none" /\ sSkipArg = 0 /\ sStack = <<>> /\ sGot = <<>>
    /\ sLen = 0 /\ sPc = "off" /\ sIters = 0

ConcIdle ==
    /\ mutex = "off" /\ arrays = <<>> /\ cerrors = NilSlice
    /\ tpc = <<>> /\ tloc = <<>> /\ mpc = "off" /\ mres = Nil /\ mcalls = 0
    /\ mprev = Nil /\ mrendered = <<>> /\ tprog = <<>>
    /\ lockOrder = <<>> /\ msnap = <<>>

\* the variables of the other components
concOthers == <<aggVars, wrapVars, errVars, causeVars, isVars, stackVars>>

\* values of the mutex: unlocked, or the name of its holder
Unlocked == "none"
TaskName(t) == "task" \o ToString(t)

\* the errors task t passes to Add when the tasks make several calls of
\* several errors: task 1 calls Add twice, the others once
MultiErr(t, n) == Leaf("E" \o ToString(t) \o "n" \o ToString(n))

MultiCalls(t) ==
    IF t = 1 THEN <<<<MultiErr(1, 1), MultiErr(1, 2)>>, <<MultiErr(1, 3)>>>>
    ELSE <<<<MultiErr(t, 1), MultiErr(t, 2)>>>>

\* the concatenation of a sequence of argument lists
RECURSIVE Flat(_)
Flat(lists) == IF lists = <<>> THEN <<>> ELSE Head(lists) \o Flat(Tail(lists))

\* a fresh collector (the zero value), the tasks and the caller at their start
ConcStart ==
    /\ mutex = Unlocked
    /\ arrays = <<>>
    /\ cerrors = NilSlice
    /\ tpc = [t \in Tasks |-> "start"]
    /\ tloc = [t \in Tasks |-> NilSlice]
    /\ mpc = "idle"
    /\ mres = Nil
    /\ mcalls = 0
    /\ mprev = Nil
    /\ mrendered = <<>>
    /\ lockOrder = <<>>
    /\ msnap = <<>>
    /\ AggIdle /\ WrapIdle /\ ErrIdle /\ CauseIdle /\ IsIdle /\ StackIdle

\* every task makes one Add call of one error
ConcInit ==
    /\ ConcStart
    /\ tprog = [t \in Tasks |-> <<TaskArgs(t)>>]

\* the tasks make the calls of MultiCalls
ConcMultiInit ==
    /\ ConcStart
    /\ tprog = [t \in Tasks |-> MultiCalls(t)]

\* Add without e.mutex.Lock(): the task enters the critical section at once
AddLockNoMutex(t) ==
    /\ tpc[t] = "start"
    /\ tpc' = [tpc EXCEPT ![t] = "locked"]
    /\ lockOrder' = Append(lockOrder, Head(tprog[t]))
    /\ UNCHANGED <<mutex, arrays, cerrors, tloc, mpc, mres, mcalls>>
    /\ UNCHANGED <<mprev, mrendered, tprog, msnap>>
    /\ UNCHANGED concOthers

\* Add: e.mutex.Lock()
AddLock(t) ==
    /\ tpc[t] = "start"
    /\ mutex = Unlocked
    /\ mutex' = TaskName(t)
    /\ tpc' = [tpc EXCEPT ![t] = "locked"]
    /\ lockOrder' = Append(lockOrder, Head(tprog[t]))
    /\ UNCHANGED <<arrays, cerrors, tloc, mpc, mres, mcalls>>
    /\ UNCHANGED <<mprev, mrendered, tprog, msnap>>
    /\ UNCHANGED concOthers

\* Add: append reads e.errors
AddRead(t) ==
    /\ tpc[t] = "locked"
    /\ tloc' = [tloc EXCEPT ![t] = cerrors]
    /\ tpc' = [tpc EXCEPT ![t] = "read"]
    /\ UNCHANGED <<mutex, arrays, cerrors, mpc, mres, mcalls>>
    /\ UNCHANGED <<mprev, mrendered, tprog, lockOrder, msnap>>
    /\ UNCHANGED concOthers

\* Add: append stores the elements and e.errors is assigned the result
AddWrite(t) ==
    /\ tpc[t] = "read"
    /\ LET r == append(arrays, tloc[t], Head(tprog[t]))
       IN  /\ arrays' = r.heap
           /\ cerrors' = r.hdr
    /\ tpc' = [tpc EXCEPT ![t] = "written"]
    /\ UNCHANGED <<mutex, tloc, mpc, mres, mcalls>>
    /\ UNCHANGED <<mprev, mrendered, tprog, lockOrder, msnap>>
    /\ UNCHANGED concOthers

\* Add: the deferred e.mutex.Unlock() and the return; the task goes on to
\* its next Add call if it has one
AddUnlock(t) ==
    /\ tpc[t] = "written"
    /\ mutex' = Unlocked
    /\ tprog' = [tprog EXCEPT ![t] = Tail(tprog[t])]
    /\ tpc' = [tpc EXCEPT ![t] = IF Len(tprog[t]) > 1 THEN "start" ELSE "done"]
    /\ UNCHANGED <<arrays, cerrors, tloc, mpc, mres, mcalls>>
    /\ UNCHANGED <<mprev, mrendered, lockOrder, msnap>>
    /\ UNCHANGED concOthers

\* Err: e.mutex.Lock()
ErrLock ==
    /\ mpc = "idle"
    /\ mcalls < MaxErrCalls
    /\ mutex = Unlocked
    /\ mutex' = "main"
    /\ mpc' = "locked"
    /\ UNCHANGED <<arrays, cerrors, tpc, tloc, mres, mcalls>>
    /\ UNCHANGED <<mprev, mrendered, tprog, lockOrder, msnap>>
    /\ UNCHANGED concOthers

\* the value Err returns for the slice header s of e.errors
ErrValue(s) ==
    IF s.len = 0 THEN Nil
    ELSE Errorf(ErrFmt,
                <<[kind |-> "int", n |-> s.len], unjoined(s)>>,
                <<"ConcurrentErrors.Err", "main">>)

\* Err that keeps the first error it built and returns it from then on
ErrBodyMemoized ==
    /\ mpc = "locked"
    /\ mres' = IF mres # Nil THEN mres ELSE ErrValue(cerrors)
    /\ mprev' = mres
    /\ mrendered' = <<>>
    /\ msnap' = Flat(lockOrder)
    /\ mpc' = "computed"
    /\ UNCHANGED <<mutex, arrays, cerrors, tpc, tloc, mcalls, tprog, lockOrder>>
    /\ UNCHANGED concOthers

\* Err: the body, computing the returned value; the caller keeps the value
\* of its call before in mprev
ErrBody ==
    /\ mpc = "locked"
    /\ mres' = ErrValue(cerrors)
    /\ mprev' = mres
    /\ mrendered' = <<>>
    /\ msnap' = Flat(lockOrder)
    /\ mpc' = "computed"
    /\ UNCHANGED <<mutex, arrays, cerrors, tpc, tloc, mcalls, tprog, lockOrder>>
    /\ UNCHANGED concOthers

\* Err: the deferred e.mutex.Unlock() and the return
ErrUnlock ==
    /\ mpc = "computed"
    /\ mutex' = Unlocked
    /\ mpc' = "idle"
    /\ mcalls' = mcalls + 1
    /\ UNCHANGED <<arrays, cerrors, tpc, tloc, mres>>
    /\ UNCHANGED <<mprev, mrendered, tprog, lockOrder, msnap>>
    /\ UNCHANGED concOthers

\* the caller renders the error its latest Err call returned, at any time
\* after the call: Error.Error() formats the Message, which joins the
\* members of the unjoined slice
RenderResult ==
    /\ mpc = "idle"
    /\ mres # Nil
    /\ mrendered = <<>>
    /\ mrendered' = ErrText(mres)
    /\ UNCHANGED <<mutex, arrays, cerrors, tpc, tloc, mpc, mres, mcalls>>
    /\ UNCHANGED <<mprev, tprog, lockOrder, msnap>>
    /\ UNCHANGED concOthers

ConcNext ==
    \/ \E t \in Tasks : AddLock(t)
    \/ \E t \in Tasks : AddRead(t)
    \/ \E t \in Tasks : AddWrite(t)
    \/ \E t \in Tasks : AddUnlock(t)
    \/ ErrLock
    \/ ErrBody
    \/ ErrUnlock
    \/ RenderResult

\* the collector used by NTasks adding tasks and one querying caller
SpecConc == ConcInit /\ [][ConcNext]_vars

\* the collector used by NTasks tasks of which one adds twice, each call
\* adding several errors, and one querying caller
SpecConcMulti == ConcMultiInit /\ [][ConcNext]_vars

(***************************************************************************)
(* Claims about ConcurrentErrors                                           *)
(***************************************************************************)

\* number of positions of `text` holding the token tok
Count(tok, text) == Cardinality({i \in 1..Len(text) : text[i] = tok})

HasPrefix(text, p) == Len(text) >= Len(p) /\ SubSeq(text, 1, Len(p)) = p

AllDone == \A t \in Tasks : tpc[t] = "done"

\* C1: when every one of the NTasks tasks has finished its single Add of one
\* distinct error, the value an Err call computes is a non-nil error whose
\* text starts with the count NTasks and holds each task's error text exactly
\* once, whatever the interleaving was; and an Err call on a collector no
\* task has added to computes nil.
C1_ErrAfterAllAdds ==
    /\ (mpc = "computed" /\ AllDone) =>
          /\ mres # Nil
          /\ HasPrefix(ErrText(mres), Itoa(NTasks) \o <<" errors:", NL>>)
          /\ \A t \in Tasks : Count(TaskErr(t).id, ErrText(mres)) = 1
    /\ (mpc = "computed" /\ \A t \in Tasks : tpc[t] = "start") => mres = Nil

\* an Err call has computed its non-nil result after all tasks finished
C1_Witness == mpc = "computed" /\ AllDone /\ mres # Nil

\* the Add calls that hold the mutex and have not stored their result yet
Storing == {t \in Tasks : tpc[t] \in {"locked", "read"}}

\* the elements of `elems` that are among the errors of the calls `calls`
OfCalls(elems, calls) ==
    SelectSeq(elems, LAMBDA e : \E i \in 1..Len(Flat(calls)) : Flat(calls)[i] = e)

IsPrefixOf(p, q) == Len(p) <= Len(q) /\ SubSeq(q, 1, Len(p)) = p

\* C12: in every interleaving the member list is the concatenation of the
\* argument lists of the Add calls in the order in which they acquired the
\* lock (the call holding the lock counts once it has stored its result), so
\* the errors of one call are contiguous and in argument order; and the
\* errors of one task appear in the order of its calls.
C12_MembersInLockOrder ==
    /\ SliceElems(cerrors) =
          IF Storing = {} THEN Flat(lockOrder)
          ELSE Flat(SubSeq(lockOrder, 1, Len(lockOrder) - 1))
    /\ \A t \in Tasks :
          IsPrefixOf(OfCalls(SliceElems(cerrors), MultiCalls(t)),
                     Flat(MultiCalls(t)))

\* every call has returned, and the second call of task 1 was not the last
\* to acquire the lock, nor its first call the first
C12_Witness ==
    /\ \A t \in Tasks : tpc[t] = "done"
    /\ Len(lockOrder) = NTasks + 1
    /\ lockOrder[1] # MultiCalls(1)[1]
    /\ lockOrder[NTasks + 1] # MultiCalls(1)[2]
    /\ SliceElems(cerrors) = Flat(lockOrder)

\* the members and the count an error returned by Err stands for
ResultElems(res) == IF res = Nil THEN <<>> ELSE SliceElems(res.Err.Args[2])
ResultCount(res) == IF res = Nil THEN 0 ELSE res.Err.Args[1].n

\* the texts of leaf errors joined as unjoined.String joins them
RECURSIVE RefJoined(_)
RefJoined(es) ==
    IF Len(es) = 1 THEN <<es[1].id>>
    ELSE <<es[1].id, NL, "    ">> \o RefJoined(Tail(es))

\* the text of an Err result over the errors es: the count, the joined
\* texts, and nothing else naming an error
IsErrTextOf(text, es) ==
    /\ HasPrefix(text, Itoa(Len(es)) \o <<" errors:", NL, "    ">> \o RefJoined(es))
    /\ \A t \in Tasks : \A i \in 1..Len(Flat(MultiCalls(t))) :
          Count(Flat(MultiCalls(t))[i].id, text) =
             IF \E j \in 1..Len(es) : es[j] = Flat(MultiCalls(t))[i] THEN 1 ELSE 0

\* C13: every Err call computes its value afresh: nil when no Add has
\* returned before it, otherwise an error whose count, members and text are
\* exactly the errors of all the Add calls that returned before it; and what
\* the call before it covered is still there, as a prefix.
C13_ErrNotMemoized ==
    mpc = "computed" =>
        /\ (mres = Nil) <=> (Flat(lockOrder) = <<>>)
        /\ ResultElems(mres) = Flat(lockOrder)
        /\ ResultCount(mres) = Len(Flat(lockOrder))
        /\ mres # Nil => IsErrTextOf(ErrText(mres), Flat(lockOrder))
        /\ IsPrefixOf(ResultElems(mprev), ResultElems(mres))

\* a second Err call has computed a value covering more errors than the
\* non-nil value of the first
C13_Witness ==
    /\ mpc = "computed"
    /\ mprev # Nil
    /\ ResultCount(mres) > ResultCount(mprev)

\* C16: the text rendered from an error returned by Err lists exactly the
\* errors, and the count, that the collector held when Err ran, whenever the
\* rendering happens and whatever Add calls ran after or during it.
C16_RenderedTextIsSnapshot ==
    mrendered # <<>> => IsErrTextOf(mrendered, msnap)

\* the result was rendered after later Add calls had grown the collector,
\* one of them in the middle of its append
C16_Witness ==
    /\ mrendered # <<>>
    /\ Len(SliceElems(cerrors)) > Len(msnap)
    /\ \E t \in Tasks : tpc[t] = "read"

(***************************************************************************)
(* Aggregate and Errors                                                    *)
(***************************************************************************)

\* largest number of error values (nils, leaves and aggregates, at all
\* nesting levels together) in one argument sequence of Aggregate
MaxSize == 4

\* appendErrors that splices an aggregate's members as they are, one level
\* deep only
RECURSIVE appendErrorsOneLevel(_, _)
appendErrorsOneLevel(acc, errs) ==
    IF errs = <<>> THEN acc
    ELSE LET err == Head(errs)
         IN  IF err = Nil THEN appendErrorsOneLevel(acc, Tail(errs))
             ELSE IF IsErrorsKind(err)
             THEN appendErrorsOneLevel(acc \o err.errors, Tail(errs))
             ELSE appendErrorsOneLevel(Append(acc, err), Tail(errs))

\* appendErrors without the case for *Errors: a pointer is kept as a member
RECURSIVE appendErrorsNoPtr(_, _)
appendErrorsNoPtr(acc, errs) ==
    IF errs = <<>> THEN acc
    ELSE LET err == Head(errs)
         IN  IF err = Nil THEN appendErrorsNoPtr(acc, Tail(errs))
             ELSE IF err.kind = "Errors"
             THEN appendErrorsNoPtr(appendErrorsNoPtr(acc, err.errors),
                                    Tail(errs))
             ELSE appendErrorsNoPtr(Append(acc, err), Tail(errs))

\* es.appendErrors(errs), es.errors being acc: the resulting es.errors.  A
\* *Errors is a non-nil pointer.
RECURSIVE appendErrors(_, _)
appendErrors(acc, errs) ==
    IF errs = <<>> THEN acc
    ELSE LET err == Head(errs)
         IN  IF err = Nil THEN appendErrors(acc, Tail(errs))
             ELSE IF err.kind = "Errors"
             THEN appendErrors(appendErrors(acc, err.errors), Tail(errs))
             ELSE IF err.kind = "PtrErrors"
             THEN appendErrors(appendErrors(acc, err.errors), Tail(errs))
             ELSE appendErrors(Append(acc, err), Tail(errs))

\* Aggregate(errs...)
Aggregate(errs) ==
    LET es == appendErrors(<<>>, errs)
    IN  IF Len(es) = 0 THEN Nil ELSE MkErrors(es)

\* Unwrap that drops the last member instead of the first
UnwrapDropLast(es) ==
    LET es2 == SubSeq(es.errors, 1, Len(es.errors) - 1)
    IN  IF Len(es2) = 0 THEN Nil ELSE MkErrors(es2)

\* Errors.Unwrap(), for an aggregate with at least one member
Unwrap(es) ==
    LET es2 == SubSeq(es.errors, 2, Len(es.errors))
    IN  IF Len(es2) = 0 THEN Nil ELSE MkErrors(es2)

\* the argument sequences of Aggregate: Forests(n) are the sequences of error
\* values holding at most n values in all, Trees(n) the single values
RECURSIVE Forests(_)
RECURSIVE Trees(_)
Trees(n) ==
    {Nil} \cup Leaves
    \cup {MkErrors(f) : f \in Forests(n - 1)}
    \cup {PtrErrors(f) : f \in Forests(n - 1)}

Forests(n) ==
    IF n = 0 THEN {<<>>}
    ELSE {<<>>} \cup
         UNION {{<<x>> \o rest : x \in Trees(k), rest \in Forests(n - k)}
                : k \in 1..n}

aggOthers == <<concVars, wrapVars, errVars, causeVars, isVars, stackVars>>

AggInit ==
    /\ aggIn \in Forests(MaxSize)
    /\ aggOut = Nil
    /\ aggPc = "start"
    /\ aggK = 0
    /\ ConcIdle /\ WrapIdle /\ ErrIdle /\ CauseIdle /\ IsIdle /\ StackIdle

\* the call Aggregate(aggIn...)
DoAggregate ==
    /\ aggPc = "start"
    /\ aggOut' = Aggregate(aggIn)
    /\ aggPc' = "built"
    /\ UNCHANGED <<aggIn, aggK>>
    /\ UNCHANGED aggOthers

\* one more Unwrap call, on the aggregate the previous call returned
DoUnwrap ==
    /\ aggPc = "built"
    /\ aggOut # Nil
    /\ aggOut' = Unwrap(aggOut)
    /\ aggK' = aggK + 1
    /\ UNCHANGED <<aggIn, aggPc>>
    /\ UNCHANGED aggOthers

AggNext == DoAggregate \/ DoUnwrap

\* Aggregate applied to every bounded argument sequence, then unwrapped
SpecAgg == AggInit /\ [][AggNext]_vars

(***************************************************************************)
(* Claims about Aggregate and Errors                                       *)
(***************************************************************************)

\* the reference flattening of one value: nothing for nil, the flattened
\* members of an aggregate, the value itself otherwise
RECURSIVE FlatOne(_)
RECURSIVE F(_)
FlatOne(x) ==
    IF x = Nil THEN <<>>
    ELSE IF IsErrorsKind(x) THEN F(x.errors)
    ELSE <<x>>

\* the reference flattening of a sequence: its values' flattenings, in order
F(seq) == IF seq = <<>> THEN <<>> ELSE FlatOne(Head(seq)) \o F(Tail(seq))

\* C2: a non-nil result of Aggregate has no member of type Errors or *Errors,
\* and neither has any aggregate obtained from it by Unwrap calls.
C2_NoAggregateMember ==
    (aggPc = "built" /\ aggOut # Nil) =>
        /\ aggOut.kind = "Errors"
        /\ \A i \in 1..Len(aggOut.errors) : ~IsErrorsKind(aggOut.errors[i])

\* Aggregate returned an aggregate for an argument nesting aggregates two
\* levels deep, and it has been unwrapped once
C2_Witness ==
    /\ aggPc = "built" /\ aggOut # Nil /\ aggK = 1
    /\ \E i \in 1..Len(aggIn) :
          /\ IsErrorsKind(aggIn[i])
          /\ \E j \in 1..Len(aggIn[i].errors) :
                /\ IsErrorsKind(aggIn[i].errors[j])
                /\ aggIn[i].errors[j].errors # <<>>

\* C3: Aggregate returns nil exactly when the reference flattening of its
\* arguments is empty, and otherwise the aggregate whose members are the
\* reference flattening, in order.
C3_AggregateIsFlattening ==
    (aggPc = "built" /\ aggK = 0) =>
        /\ (aggOut = Nil) <=> (F(aggIn) = <<>>)
        /\ aggOut # Nil => aggOut = MkErrors(F(aggIn))

\* Aggregate returned for an argument holding a nil, a leaf and a non-empty
\* aggregate
C3_Witness ==
    /\ aggPc = "built" /\ aggK = 0 /\ aggOut # Nil
    /\ \E i, j, k \in 1..Len(aggIn) :
          /\ aggIn[i] = Nil
          /\ aggIn[j] \in Leaves
          /\ IsErrorsKind(aggIn[k]) /\ aggIn[k].errors # <<>>

\* the members of the aggregate Aggregate(aggIn...) returned
AggMembers == appendErrors(<<>>, aggIn)

\* C4: after k Unwrap calls on an aggregate of members m1..mn the result is
\* the aggregate of m(k+1)..mn when k < n, and nil when k = n.
C4_UnwrapDropsFirst ==
    (aggPc = "built" /\ AggMembers # <<>>) =>
        LET n == Len(AggMembers)
        IN  /\ aggK <= n
            /\ aggK < n => aggOut = MkErrors(SubSeq(AggMembers, aggK + 1, n))
            /\ aggK = n => aggOut = Nil

\* an aggregate of three members has been unwrapped three times
C4_Witness ==
    aggPc = "built" /\ Len(AggMembers) = 3 /\ aggK = 3 /\ aggOut = Nil

(***************************************************************************)
(* WrapDeferred                                                            *)
(***************************************************************************)

\* number of deferred calls run against one slot
MaxDefers == 2

\* the stack of a deferred WrapDeferred call, the caller first
DeferStack == <<"main">>

\* WrapDeferred of src/errors.go with the prior error stored as Cause
WrapDeferredAsCause(pe, slot, cb) ==
    IF cb # Nil
    THEN IF pe = "nilptr"
         THEN [out |-> "panicked", slot |-> slot]
         ELSE [out |-> "returned",
               slot |-> CreateError(cb, slot, Nil, 0,
                                    <<"WrapDeferred">> \o DeferStack)]
    ELSE [out |-> "returned", slot |-> slot]

\* WrapDeferred(pe, deferred) of src/errors.go: pe is "nilptr" or "slot",
\* slot is *pe, cb is what deferred() returns.  The result is how the call
\* ends and what the slot holds then; storing through a nil pe panics.
WrapDeferred(pe, slot, cb) ==
    IF cb # Nil
    THEN IF pe = "nilptr"
         THEN [out |-> "panicked", slot |-> slot]
         ELSE [out |-> "returned",
               slot |-> CreateError(cb, Nil, slot, 0,
                                    <<"WrapDeferred">> \o DeferStack)]
    ELSE [out |-> "returned", slot |-> slot]

\* WrapDeferred(pErr, f) of src/wrap.go
WrapDeferred_wrap(pe, slot, cb) ==
    IF pe = "nilptr" THEN [out |-> "panicked", slot |-> slot]
    ELSE IF cb # Nil
    THEN IF slot = Nil
         THEN [out |-> "returned", slot |-> cb]
         ELSE [out |-> "returned", slot |-> MkError(cb, Nil, slot, NilPcs)]
    ELSE [out |-> "returned", slot |-> slot]

\* WrapDefer(pe, deferred) of the earlier revision
WrapDefer(pe, slot, cb) ==
    IF pe = "nilptr" THEN [out |-> "panicked", slot |-> slot]
    ELSE IF cb # Nil
    THEN IF slot # Nil
         THEN [out |-> "returned",
               slot |-> CreateError(cb, Nil, slot, 0,
                                    <<"WrapDefer">> \o DeferStack)]
         ELSE [out |-> "returned", slot |-> cb]
    ELSE [out |-> "returned", slot |-> slot]

\* what a deferred callback may return
CbResults == {Nil} \cup Leaves

wrapOthers == <<concVars, aggVars, errVars, causeVars, isVars, stackVars>>

WrapInit ==
    /\ wPe \in {"nilptr", "slot"}
    /\ wSlot \in {Nil} \cup Leaves
    /\ wPrev = Nil
    /\ wCb = Nil
    /\ wOut = "none"
    /\ wVariant \in {"errors.go", "wrap.go", "part_001"}
    /\ wCalls = 0
    /\ ConcIdle /\ AggIdle /\ ErrIdle /\ CauseIdle /\ IsIdle /\ StackIdle

\* the bookkeeping common to the three calls: r is the call's result
WrapCall(cb, r) ==
    /\ wPrev' = wSlot
    /\ wCb' = cb
    /\ wOut' = r.out
    /\ wSlot' = r.slot
    /\ wCalls' = wCalls + 1
    /\ UNCHANGED <<wPe, wVariant>>
    /\ UNCHANGED wrapOthers

\* a deferred call of src/errors.go's WrapDeferred
CallWrapDeferred ==
    /\ wVariant = "errors.go" /\ wOut # "panicked" /\ wCalls < MaxDefers
    /\ \E cb \in CbResults : WrapCall(cb, WrapDeferred(wPe, wSlot, cb))

\* a deferred call of src/wrap.go's WrapDeferred
CallWrapDeferred_wrap ==
    /\ wVariant = "wrap.go" /\ wOut # "panicked" /\ wCalls < MaxDefers
    /\ \E cb \in CbResults : WrapCall(cb, WrapDeferred_wrap(wPe, wSlot, cb))

\* a deferred call of the earlier revision's WrapDefer
CallWrapDefer ==
    /\ wVariant = "part_001" /\ wOut # "panicked" /\ wCalls < MaxDefers
    /\ \E cb \in CbResults : WrapCall(cb, WrapDefer(wPe, wSlot, cb))

WrapNext == CallWrapDeferred \/ CallWrapDeferred_wrap \/ CallWrapDefer

\* deferred calls run one after another against one slot
SpecWrap == WrapInit /\ [][WrapNext]_vars

(***************************************************************************)
(* Claims about WrapDeferred                                               *)
(***************************************************************************)

\* C5: a call with a slot holding a non-nil X whose callback returns a
\* non-nil Y returns and leaves in the slot an Error with Err = Y,
\* Context = X and no Cause.
C5_PriorBecomesContext ==
    (wCalls > 0 /\ wPe = "slot" /\ wPrev # Nil /\ wCb # Nil) =>
        /\ wOut = "returned"
        /\ wSlot.kind = "Error"
        /\ wSlot.Err = wCb
        /\ wSlot.Context = wPrev
        /\ wSlot.Cause = Nil

\* src/errors.go's WrapDeferred has run on a slot holding an error, with a
\* failing callback
C5_Witness ==
    /\ wVariant = "errors.go" /\ wCalls > 0 /\ wOut = "returned"
    /\ wPe = "slot" /\ wPrev # Nil /\ wCb # Nil

\* C6: a call of src/errors.go's WrapDeferred with a non-nil slot pointer
\* whose slot is empty, and a callback returning a non-nil Y, leaves exactly
\* Y in the slot.
C6_EmptySlotHoldsCallbackError ==
    (wVariant = "errors.go" /\ wCalls > 0 /\ wPe = "slot" /\ wPrev = Nil
       /\ wCb # Nil) =>
        wOut = "returned" /\ wSlot = wCb

\* C7: a call of src/errors.go's WrapDeferred with a nil slot pointer
\* panics, whatever the callback returns.
C7_NilSlotPanics ==
    (wVariant = "errors.go" /\ wCalls > 0 /\ wPe = "nilptr") =>
        wOut = "panicked"

(***************************************************************************)
(* Error.Error and Error.Is                                                *)
(***************************************************************************)

\* whether == is defined on the dynamic type of x: pointers are comparable,
\* Message and Error hold slices and are not
Comparable(x) == x.kind \in {"leaf", "PtrError", "PtrErrors"}

RECURSIVE Is(_, _)
RECURSIVE ErrorIs(_, _)
RECURSIVE ErrorsIs(_, _)

\* Error.Is(err), the method of Error and of *Error
ErrorIs(e, err) ==
    IF err.kind = "Error"
    THEN /\ Is(e.Err, err.Err)
         /\ \/ (e.Cause = Nil /\ err.Cause = Nil)
            \/ (e.Cause # Nil /\ err.Cause # Nil /\ Is(e.Cause, err.Cause))
         /\ \/ (e.Context = Nil /\ err.Context = Nil)
            \/ (e.Context # Nil /\ err.Context # Nil
                  /\ Is(e.Context, err.Context))
    ELSE \/ Is(e.Err, err)
         \/ (e.Cause # Nil /\ Is(e.Cause, err))
         \/ (e.Context # Nil /\ Is(e.Context, err))

\* the loop of Errors.errorsEqual over the members still to compare
RECURSIVE errorsEqualLoop(_, _)
errorsEqualLoop(mine, errs) ==
    IF mine = <<>> THEN TRUE
    ELSE IF ~Is(Head(mine), Head(errs)) THEN FALSE
    ELSE errorsEqualLoop(Tail(mine), Tail(errs))

\* errorsEqual as a set comparison: every member matches some member of errs
errorsEqualAsSet(mine, errs) ==
    /\ Len(mine) = Len(errs)
    /\ \A i \in 1..Len(mine) : \E j \in 1..Len(errs) : Is(mine[i], errs[j])

\* es.errorsEqual(errs), mine being es.errors
errorsEqual(mine, errs) ==
    IF Len(mine) # Len(errs) THEN FALSE
    ELSE errorsEqualLoop(mine, errs)

\* the last loop of Errors.Is: whether some member matches the target
RECURSIVE anyIs(_, _)
anyIs(mine, target) ==
    IF mine = <<>> THEN FALSE
    ELSE IF Is(Head(mine), target) THEN TRUE
    ELSE anyIs(Tail(mine), target)

\* Errors.Is(target), the method of Errors and of *Errors; a *Errors target
\* is a non-nil pointer
ErrorsIs(es, target) ==
    IF target.kind = "PtrErrors" THEN errorsEqual(es.errors, target.errors)
    ELSE IF target.kind = "Errors" THEN errorsEqual(es.errors, target.errors)
    ELSE anyIs(es.errors, target)

\* Is(err, target), forwarded to the standard errors.Is: equal when the
\* target's type is comparable and the values are ==, or when err has an Is
\* method that accepts the target; otherwise errors.Is goes on with
\* err.Unwrap(), which only an aggregate has (and which needs a member to
\* drop); leaves, Messages and Errors end the chain
Is(err, target) ==
    IF err = Nil \/ target = Nil THEN err = target
    ELSE IF Comparable(target) /\ err = target THEN TRUE
    ELSE IF IsErrorKind(err) THEN ErrorIs(err, target)
    ELSE IF IsErrorsKind(err)
    THEN \/ ErrorsIs(err, target)
         \/ /\ Len(err.errors) > 0
            /\ Unwrap(err) # Nil
            /\ Is(Unwrap(err), target)
    ELSE FALSE

\* the stack of the caller that constructs the Error under examination
UserStack == <<"caller", "main">>

\* the format and arguments given to the Errorf family
MsgFmt == <<"failed: ", "%v">>
MsgArgs == <<Leaf("A")>>

OptLeaves == {Nil} \cup Leaves

\* Errors built as struct literals, without a trace
LiteralErrors ==
    {MkError(err, ca, co, NilPcs) :
        err \in Leaves, ca \in OptLeaves, co \in OptLeaves}

\* optional Cause or Context of a constructed Error: none, a leaf, or an
\* Error built by CreateError
OptErrs ==
    OptLeaves \cup {CreateError(Leaf("A"), Leaf("B"), Nil, 0, UserStack)}

\* the Errors the constructors return, each with the constructor's name
ConstructedErrors ==
    {[how |-> "CreateError", val |-> CreateError(err, ca, co, 0, UserStack)] :
        err \in Leaves, ca \in OptErrs, co \in OptErrs}
    \cup {[how |-> "Errorf", val |-> Errorf(MsgFmt, MsgArgs, UserStack)]}
    \cup {[how |-> "ErrorfWithCause",
           val |-> ErrorfWithCause(ca, MsgFmt, MsgArgs, UserStack)] :
            ca \in OptErrs}
    \cup {[how |-> "ErrorfWithContext",
           val |-> ErrorfWithContext(co, MsgFmt, MsgArgs, UserStack)] :
            co \in OptErrs}
    \cup {[how |-> "ErrorfWithCauseAndContext",
           val |-> ErrorfWithCauseAndContext(ca, co, MsgFmt, MsgArgs,
                                             UserStack)] :
            ca \in OptErrs, co \in OptErrs}

errOthers == <<concVars, aggVars, wrapVars, causeVars, isVars, stackVars>>

ErrInit ==
    /\ \E c \in ConstructedErrors
              \cup {[how |-> "literal", val |-> e] : e \in LiteralErrors} :
          eVal = c.val /\ eHow = c.how
    /\ eOther = Nil
    /\ eText = <<>>
    /\ eIs = FALSE
    /\ ePc = "start"
    /\ ConcIdle /\ AggIdle /\ WrapIdle /\ CauseIdle /\ IsIdle /\ StackIdle

\* the call eVal.Error()
Render ==
    /\ ePc = "start"
    /\ eText' = ErrorError(eVal)
    /\ ePc' = "rendered"
    /\ UNCHANGED <<eVal, eHow, eOther, eIs>>
    /\ UNCHANGED errOthers

\* the call eVal.Is(e2), e2 being eVal itself or an Error with the same Err,
\* Cause and Context built without a trace
Match ==
    /\ ePc = "start"
    /\ \E e2 \in {eVal, [eVal EXCEPT !.pcs = NilPcs]} :
          /\ eOther' = e2
          /\ eIs' = ErrorIs(eVal, e2)
    /\ ePc' = "matched"
    /\ UNCHANGED <<eVal, eHow, eText>>
    /\ UNCHANGED errOthers

ErrNext == Render \/ Match

\* one Error value, rendered or matched against itself
SpecErr == ErrInit /\ [][ErrNext]_vars

(***************************************************************************)
(* Claims about Error.Error and Error.Is                                   *)
(***************************************************************************)

\* C8: the text of a struct-literal Error over leaf errors has no extra or
\* blank lines: it is the inner text alone when neither Cause nor Context is
\* set, the inner text, one newline and "Cause:  " with the Cause text when
\* only Cause is set, and likewise with "Context:  " when only Context is.
C8_NoBlankLines ==
    (ePc = "rendered" /\ eHow = "literal") =>
        /\ (eVal.Cause = Nil /\ eVal.Context = Nil) =>
              eText = ErrText(eVal.Err)
        /\ (eVal.Cause # Nil /\ eVal.Context = Nil) =>
              eText = ErrText(eVal.Err) \o <<NL, "Cause:  ">>
                         \o ErrText(eVal.Cause)
        /\ (eVal.Cause = Nil /\ eVal.Context # Nil) =>
              eText = ErrText(eVal.Err) \o <<NL, "Context:  ">>
                         \o ErrText(eVal.Context)

\* C9: an Error returned by CreateError or by one of the Errorf functions
\* matches itself, and any Error with the same Err, Cause and Context.
C9_IsReflexive ==
    (ePc = "matched" /\ eHow # "literal") => eIs = TRUE

(***************************************************************************)
(* Errors.Is                                                               *)
(***************************************************************************)

\* largest number of members of the aggregates given to Errors.Is
MaxMembers == 2

\* the members of those aggregates: leaves, an Error over a leaf and a
\* Message
IsMembers ==
    Leaves \cup {MkError(Leaf("A"), Nil, Nil, NilPcs),
                 Message(MsgFmt, MsgArgs)}

\* the sequences of at most n members
RECURSIVE MemberSeqs(_)
MemberSeqs(n) ==
    IF n = 0 THEN {<<>>}
    ELSE LET shorter == MemberSeqs(n - 1)
         IN  shorter \cup {Append(q, m) : q \in shorter, m \in IsMembers}

isOthers == <<concVars, aggVars, wrapVars, errVars, causeVars, stackVars>>

IsInit ==
    /\ isEs \in {MkErrors(q) : q \in MemberSeqs(MaxMembers)}
    /\ isT \in {MkErrors(q) : q \in MemberSeqs(MaxMembers)}
               \cup {PtrErrors(q) : q \in MemberSeqs(MaxMembers)}
               \cup IsMembers \cup {Nil}
    /\ isRes = FALSE
    /\ isPc = "start"
    /\ ConcIdle /\ AggIdle /\ WrapIdle /\ ErrIdle /\ CauseIdle /\ StackIdle

\* the call isEs.Is(isT)
CallErrorsIs ==
    /\ isPc = "start"
    /\ isRes' = ErrorsIs(isEs, isT)
    /\ isPc' = "called"
    /\ UNCHANGED <<isEs, isT>>
    /\ UNCHANGED isOthers

IsNext == CallErrorsIs

\* Errors.Is called on every bounded aggregate and target
SpecIs == IsInit /\ [][IsNext]_vars

(***************************************************************************)
(* Claims about Errors.Is                                                  *)
(***************************************************************************)

\* C11: against an aggregate target, Errors.Is holds exactly when both have
\* as many members and member i matches the target's member i at every
\* position; against any other target, exactly when some member matches it.
C11_ErrorsIs ==
    isPc = "called" =>
        /\ IsErrorsKind(isT) =>
              (isRes <=>
                 /\ Len(isEs.errors) = Len(isT.errors)
                 /\ \A i \in 1..Len(isEs.errors) :
                       Is(isEs.errors[i], isT.errors[i]))
        /\ ~IsErrorsKind(isT) =>
              (isRes <=> \E i \in 1..Len(isEs.errors) : Is(isEs.errors[i], isT))

\* Errors.Is has refused an aggregate target holding the receiver's two
\* members in the other order
C11_Witness ==
    /\ isPc = "called" /\ ~isRes
    /\ isEs.errors = <<Leaf("A"), Leaf("B")>>
    /\ IsErrorsKind(isT) /\ isT.errors = <<Leaf("B"), Leaf("A")>>

(***************************************************************************)
(* Cause                                                                   *)
(***************************************************************************)

\* largest number of Errors on the Cause chain of an argument of Cause
MaxChain == 2

\* one iteration of Cause's loop that goes on to Context where Cause is nil
CauseIterViaContext(err) ==
    IF ~IsErrorKind(err) THEN [done |-> TRUE, val |-> err]
    ELSE IF err.Cause = Nil
    THEN IF err.Context = Nil THEN [done |-> TRUE, val |-> err.Err]
         ELSE [done |-> FALSE, val |-> err.Context]
    ELSE [done |-> FALSE, val |-> err.Cause]

\* one iteration of Cause's loop on the loop variable err: whether it
\* returns, and the returned value or the next value of err.  A *Error is a
\* non-nil pointer.
CauseIter(err) ==
    IF ~IsErrorKind(err) THEN [done |-> TRUE, val |-> err]
    ELSE IF err.Cause = Nil THEN [done |-> TRUE, val |-> err.Err]
    ELSE [done |-> FALSE, val |-> err.Cause]

\* values given as Err and as Context on a chain
ChainErrs == Leaves \cup {MkError(Leaf("A"), Leaf("B"), Leaf("B"), NilPcs)}
ChainContexts ==
    {Nil, Leaf("B"), MkError(Leaf("B"), Leaf("A"), Nil, NilPcs)}

\* the arguments of Cause: values with at most n Errors on the Cause chain
RECURSIVE Chains(_)
Chains(n) ==
    IF n = 0 THEN {Nil} \cup Leaves \cup {MkErrors(<<Leaf("A")>>)}
    ELSE LET shorter == Chains(n - 1)
             structs == {MkError(err, ca, co, NilPcs) :
                            err \in ChainErrs, ca \in shorter,
                            co \in ChainContexts}
         IN  shorter \cup structs \cup {PtrTo(e) : e \in structs}

causeOthers == <<concVars, aggVars, wrapVars, errVars, isVars, stackVars>>

CauseInit ==
    /\ cIn \in Chains(MaxChain)
    /\ cErr = cIn
    /\ cPc = "loop"
    /\ cRet = Nil
    /\ cIters = 0
    /\ ConcIdle /\ AggIdle /\ WrapIdle /\ ErrIdle /\ IsIdle /\ StackIdle

\* an iteration of the loop that ends in `err = e.Cause`
CauseFollow ==
    /\ cPc = "loop"
    /\ ~CauseIter(cErr).done
    /\ cErr' = CauseIter(cErr).val
    /\ cIters' = cIters + 1
    /\ UNCHANGED <<cIn, cPc, cRet>>
    /\ UNCHANGED causeOthers

\* an iteration of the loop that returns
CauseReturn ==
    /\ cPc = "loop"
    /\ CauseIter(cErr).done
    /\ cRet' = CauseIter(cErr).val
    /\ cPc' = "done"
    /\ cIters' = cIters + 1
    /\ UNCHANGED <<cIn, cErr>>
    /\ UNCHANGED causeOthers

CauseNext == CauseFollow \/ CauseReturn

\* Cause run on every bounded argument
SpecCause == CauseInit /\ [][CauseNext]_vars

(***************************************************************************)
(* Claims about Cause                                                      *)
(***************************************************************************)

\* the chain x, x.Cause, x.Cause.Cause, ... up to the first element that is
\* not an Error or *Error, or whose Cause is nil
RECURSIVE ChainOf(_)
ChainOf(x) ==
    IF IsErrorKind(x) /\ x.Cause # Nil THEN <<x>> \o ChainOf(x.Cause)
    ELSE <<x>>

\* the result the claim describes, read off the chain
RefCause(x) ==
    LET c == ChainOf(x)
        i == CHOOSE j \in 1..Len(c) :
                /\ ~IsErrorKind(c[j]) \/ c[j].Cause = Nil
                /\ \A k \in 1..(j - 1) : IsErrorKind(c[k]) /\ c[k].Cause # Nil
    IN  IF IsErrorKind(c[i]) THEN c[i].Err ELSE c[i]

\* x with the Context of every Error on its Cause chain cleared
RECURSIVE StripContext(_)
StripContext(x) ==
    IF IsErrorKind(x)
    THEN [x EXCEPT !.Context = Nil, !.Cause = StripContext(x.Cause)]
    ELSE x

\* C10: Cause returns after at most one iteration per chain element; it
\* returns its argument when that is no Error or *Error, and otherwise the
\* Err of the first Error on the Cause chain whose Cause is nil, or the first
\* chain element that is no Error; the Context fields on the chain do not
\* change the result.
C10_CauseFollowsCauseChain ==
    /\ cIters <= Len(ChainOf(cIn))
    /\ cPc = "loop" => cIters < Len(ChainOf(cIn))
    /\ cPc = "done" =>
          /\ cRet = RefCause(cIn)
          /\ cRet = RefCause(StripContext(cIn))
          /\ ~IsErrorKind(cIn) => cRet = cIn

\* Cause has returned the Err of the second Error of a chain whose first
\* Error has a Context
C10_Witness ==
    /\ cPc = "done" /\ cIters = 2
    /\ IsErrorKind(cIn) /\ cIn.Context # Nil
    /\ IsErrorKind(cIn.Cause) /\ cIn.Cause.Cause = Nil
    /\ cIn.Cause.Context # Nil
    /\ cRet = cIn.Cause.Err

(***************************************************************************)
(* Stack capture: the constructors and setErrorPCs                         *)
(***************************************************************************)

\* deepest stack of the constructor's caller, and largest skip given to
\* CreateError
MaxDepth == 66
MaxSkip == 2

\* the constructors that capture a stack
Constructors ==
    {"CreateError", "Errorf", "ErrorfWithCause", "ErrorfWithContext",
     "ErrorfWithCauseAndContext"}

\* a stack of d frames, newest first: the constructor's caller is f1
StackOf(d) == [i \in 1..d |-> "f" \o ToString(i)]

\* the skip that reaches CreateError: its argument, or the 1 the Errorf
\* family passes
ConstructorSkip(how, skip) == IF how = "CreateError" THEN skip ELSE 1

\* the stack setErrorPCs is called on: CreateError, the Errorf-family
\* function that called it, and the caller's frames
SeenStack(how, stk) ==
    IF how = "CreateError" THEN <<"CreateError">> \o stk
    ELSE <<"CreateError", how>> \o stk

stackOthers == <<concVars, aggVars, wrapVars, errVars, causeVars, isVars>>

StackInit ==
    /\ sHow \in Constructors
    /\ sSkipArg \in 0..MaxSkip
    /\ sHow # "CreateError" => sSkipArg = 1
    /\ sStack \in {StackOf(d) : d \in 1..MaxDepth}
    /\ sGot = <<>>
    /\ sLen = 0
    /\ sPc = "start"
    /\ sIters = 0
    /\ ConcIdle /\ AggIdle /\ WrapIdle /\ ErrIdle /\ CauseIdle /\ IsIdle

\* the constructor is called, reaches setErrorPCs, and pcs := cache[:]
StackEnter ==
    /\ sPc = "start"
    /\ sPc' = "loop"
    /\ sLen' = cacheLen
    /\ UNCHANGED <<sHow, sSkipArg, sStack, sGot, sIters>>
    /\ UNCHANGED stackOthers

\* the outcome of the loop iteration that is next
StackIter ==
    setErrorPCsIter(pcsSkip(ConstructorSkip(sHow, sSkipArg)),
                    SeenStack(sHow, sStack), sGot, sLen)

\* an iteration that fills pcs: append, extend to the capacity, go on
StackGrow ==
    /\ sPc = "loop"
    /\ ~StackIter.done
    /\ sGot' = StackIter.got
    /\ sLen' = StackIter.len
    /\ sIters' = sIters + 1
    /\ UNCHANGED <<sHow, sSkipArg, sStack, sPc>>
    /\ UNCHANGED stackOthers

\* the iteration that leaves room in pcs: break, and e.pcs is the copy of
\* pcs[:count]
StackBreak ==
    /\ sPc = "loop"
    /\ StackIter.done
    /\ sGot' = StackIter.got
    /\ sLen' = StackIter.len
    /\ sIters' = sIters + 1
    /\ sPc' = "done"
    /\ UNCHANGED <<sHow, sSkipArg, sStack>>
    /\ UNCHANGED stackOthers

StackNext == StackEnter \/ StackGrow \/ StackBreak

\* each constructor called at every bounded stack depth
SpecStack == StackInit /\ [][StackNext]_vars

(***************************************************************************)
(* Claims about stack capture                                              *)
(***************************************************************************)

\* the goroutine's whole stack while runtime.Callers runs
WholeStack == <<"runtime.Callers", "setErrorPCs">> \o SeenStack(sHow, sStack)

\* the frames of stk from position `first` to the bottom
FromFrame(stk, first) ==
    IF first > Len(stk) THEN <<>> ELSE SubSeq(stk, first, Len(stk))

\* C14: whatever the depth of the stack (more than the 32 cells, or exactly
\* 32 or 64 frames left to record), the loop of setErrorPCs ends, after at
\* most one iteration more than the full windows it recorded, and e.pcs then
\* holds every frame from the one setErrorPCs was asked to start at down to
\* the bottom of the stack, each once and in order.
C14_StackNotTruncated ==
    /\ sIters <= 1 + Len(sGot) \div cacheLen
    /\ sPc = "done" =>
          sGot = FromFrame(WholeStack,
                           pcsSkip(ConstructorSkip(sHow, sSkipArg)) + 3)

\* the loop has ended after recording exactly two windows of frames
C14_Witness == sPc = "done" /\ Len(sGot) = 2 * cacheLen /\ sIters = 3

\* C15: the first recorded frame is the caller of the constructor: for
\* CreateError(…, skip) the frame skip levels above CreateError's caller
\* (nothing is recorded when the stack is not that deep), for the Errorf
\* family the caller of that function.
C15_FirstFrameIsCaller ==
    sPc = "done" =>
        LET first == IF sHow = "CreateError" THEN sSkipArg + 1 ELSE 1
        IN  IF first > Len(sStack) THEN sGot = <<>>
            ELSE sGot # <<>> /\ sGot[1] = sStack[first]

\* CreateError was called with skip 2 on a stack deeper than the window and
\* recorded the frame two levels above its caller first
C15_Witness ==
    /\ sPc = "done" /\ sHow = "CreateError" /\ sSkipArg = 2
    /\ Len(sStack) > cacheLen /\ sGot[1] = "f3"

====
